---- MODULE Spec2Model ----
(***************************************************************************)
(* PlotLib: the columnar DataSet container (src/src/dataset.py), the       *)
(* chainable selector DataProcessLayer and the DataTransformer             *)
(* (src/src/processor.py).                                                 *)
(*                                                                         *)
(* Conventions.  A Python list is a sequence; the element at Python index  *)
(* i is element i+1 of the sequence, and every index the program stores    *)
(* (local_idx, father_idx, initial_idx, group_local_idx) keeps its Python  *)
(* value.  A Python str is a sequence of one-character strings, so that    *)
(* matching and concatenation are computed on the characters.  The matrix  *)
(* of a DataSet is the sequence of its columns (field data), each column   *)
(* the sequence of its nrows cell values: shape == (nrows, Len(data)).     *)
(* A call that raises is a result record whose err field names the fault;  *)
(* its ds field is the object as the raise leaves it.                      *)
(***************************************************************************)
EXTENDS Integers, Sequences, FiniteSets, TLC

VARIABLES dataset, Selected_data, called_select, tr, last, call, prev, chain, faulted,
          ncalls, nops, yielded, normcall, source, handle

vars == <<dataset, Selected_data, called_select, tr, last, call, prev, chain, faulted,
          ncalls, nops, yielded, normcall, source, handle>>

-----------------------------------------------------------------------------
(* Python values *)

\* Python's None inside a list of integers (an unset index or group id).
None == -1000

Range(s) == {s[i] : i \in 1..Len(s)}

RECURSIVE SeqMax(_)
SeqMax(s) ==
    IF Len(s) = 1 THEN s[1]
    ELSE LET m == SeqMax(Tail(s)) IN IF s[1] > m THEN s[1] ELSE m

\* list(range(n))
PyRange(n) == [i \in 1..n |-> i - 1]

\* The position a Python index addresses in a sequence of n elements.
PyIdx(i, n) == IF i < 0 THEN i + n ELSE i

\* Whether seq[i] / array[:, i] does not raise IndexError.
InRange(i, n) == i >= -n /\ i < n

\* The element at the first index, once per index.
Pick_first(s, idx) == [k \in 1..Len(idx) |-> s[PyIdx(idx[1], Len(s)) + 1]]

\* [s[i] for i in idx]
Pick(s, idx) == [k \in 1..Len(idx) |-> s[PyIdx(idx[k], Len(s)) + 1]]

\* The value of a set that holds one: {e(x) : x \in {v}} names v once.
Let1(S) == CHOOSE x \in S : TRUE

RECURSIVE Flatten(_)
Flatten(ss) == IF ss = <<>> THEN <<>> ELSE Head(ss) \o Flatten(Tail(ss))

-----------------------------------------------------------------------------
(* DataSet *)

\* DataSet.__init__
NewDataSet ==
    [data |-> <<>>, nrows |-> 0, names |-> <<>>, units |-> <<>>,
     groups_idx |-> <<>>, group_local_idx |-> <<>>, local_idx |-> <<>>,
     father_idx |-> <<>>, initial_idx |-> <<>>, num_datagroups |-> 0,
     generation |-> 0, status |-> "empty"]

\* data.shape[1] and data.size
NCols(d) == Len(d.data)
Size(d) == d.nrows * Len(d.data)

\* DataSet.get_groupnumber
get_groupnumber(groups_idx) ==
    IF groups_idx = <<>> THEN 0 ELSE Cardinality(Range(groups_idx))

\* The loop of DataSet._get_group_local_idx: counter is the dict, out the list.
RECURSIVE GroupLocalLoop(_, _, _)
GroupLocalLoop(groups_idx, counter, out) ==
    IF groups_idx = <<>> THEN out
    ELSE LET g == Head(groups_idx)
             c == IF g \in DOMAIN counter THEN counter[g] ELSE 0
         IN GroupLocalLoop(Tail(groups_idx),
                           [x \in (DOMAIN counter) \cup {g} |->
                               IF x = g THEN c + 1 ELSE counter[x]],
                           Append(out, c))

\* DataSet._get_group_local_idx
_get_group_local_idx(groups_idx) == GroupLocalLoop(groups_idx, <<>>, <<>>)

\* The loop of DataSet._group_local_indices_unify_check from position i on;
\* unit_by_local is the dict. FALSE when the check raises.
RECURSIVE UnifyLoop(_, _, _, _)
UnifyLoop(group_local_idx, units, i, unit_by_local) ==
    IF i > Len(group_local_idx) THEN TRUE
    ELSE LET l == group_local_idx[i]
         IN IF l \in DOMAIN unit_by_local /\ unit_by_local[l] # units[i]
            THEN FALSE
            ELSE UnifyLoop(group_local_idx, units, i + 1,
                           [x \in (DOMAIN unit_by_local) \cup {l} |->
                               IF x = l THEN units[i] ELSE unit_by_local[x]])

\* DataSet._group_local_indices_unify_check: TRUE when it returns.
_group_local_indices_unify_check(group_local_idx, units) ==
    UnifyLoop(group_local_idx, units, 1, <<>>)

\* The defaulting loop of update_attributes over groups_idx, from position i on.
RECURSIVE FillGroups(_, _)
FillGroups(groups_idx, i) ==
    IF i > Len(groups_idx) THEN groups_idx
    ELSE FillGroups(
           IF groups_idx[i] # None THEN groups_idx
           ELSE IF \A k \in 1..Len(groups_idx) : groups_idx[k] = None
           THEN [groups_idx EXCEPT ![i] = 0]
           ELSE [groups_idx EXCEPT
                   ![i] = SeqMax(SelectSeq(groups_idx, LAMBDA g : g # None)) + 1],
           i + 1)

\* father_idx / initial_idx defaulting of update_attributes.
FillIdx(idx, local_idx) ==
    [i \in 1..Len(idx) |-> IF idx[i] = None THEN local_idx[i] ELSE idx[i]]

\* DataSet.update_attributes
update_attributes(d) ==
    IF ~(/\ NCols(d) = Len(d.names)
         /\ Len(d.names) = Len(d.units)
         /\ Len(d.units) = Len(d.groups_idx)
         /\ Len(d.groups_idx) = Len(d.father_idx)
         /\ Len(d.father_idx) = Len(d.initial_idx))
    THEN [ds |-> d, err |-> "DimensionMismatch"]
    ELSE LET d1 == [d EXCEPT !.local_idx = PyRange(NCols(d)),
                             !.num_datagroups = get_groupnumber(d.groups_idx),
                             !.group_local_idx = _get_group_local_idx(d.groups_idx)]
         IN IF ~_group_local_indices_unify_check(d1.group_local_idx, d1.units)
            THEN [ds |-> d1, err |-> "SchemaAlignment"]
            ELSE [ds |-> [d1 EXCEPT !.status = "written",
                                    !.father_idx = FillIdx(d1.father_idx, d1.local_idx),
                                    !.initial_idx = FillIdx(d1.initial_idx, d1.local_idx),
                                    !.groups_idx = FillGroups(d1.groups_idx, 1)],
                  err |-> "ok"]

\* DataSet.expandata(self, other); np.hstack raises ValueError on unequal row counts.
expandata(self, other) ==
    IF Size(self) # 0 /\ self.nrows # other.nrows
    THEN [ds |-> self, err |-> "ValueError"]
    ELSE update_attributes(
           [self EXCEPT !.data = IF Size(self) = 0 THEN other.data
                                 ELSE self.data \o other.data,
                        !.nrows = IF Size(self) = 0 THEN other.nrows ELSE self.nrows,
                        !.names = self.names \o other.names,
                        !.units = self.units \o other.units,
                        !.groups_idx = self.groups_idx \o other.groups_idx,
                        !.father_idx = self.father_idx \o other.father_idx,
                        !.initial_idx = self.initial_idx \o other.initial_idx])

\* ColumnList.__len__: no column can be reached when the matrix has no cell.
ColumnList_len(d) == IF Size(d) > 0 THEN NCols(d) ELSE 0

\* ColumnList.__getitem__(idx) for an int: the position of the Column, or None
\* where it raises IndexError.
ColumnList_getitem(d, idx) ==
    LET i == IF idx < 0 THEN ColumnList_len(d) + idx ELSE idx
    IN IF i < 0 \/ i >= ColumnList_len(d) THEN None ELSE i

\* Column._ALLOWED_KEYS and the keys Column.__getitem__ accepts.
_ALLOWED_KEYS == {"name", "unit", "group_idx", "data"}

ReadKeys ==
    _ALLOWED_KEYS \cup {"local_idx", "group_local_idx", "father_idx", "initial_idx"}

\* The list of d a key of Column reads.
ColumnField(d, key) ==
    CASE key = "name" -> d.names
      [] key = "unit" -> d.units
      [] key = "group_idx" -> d.groups_idx
      [] key = "group_local_idx" -> d.group_local_idx
      [] key = "father_idx" -> d.father_idx
      [] key = "initial_idx" -> d.initial_idx
      [] OTHER -> d.data

\* Column.__getitem__(key) on Column(d, idx): the property getters read the
\* lists and the matrix of d at idx.
Column_getitem(d, idx, key) ==
    IF key \notin ReadKeys THEN [v |-> <<>>, err |-> "KeyError"]
    ELSE IF key = "local_idx" THEN [v |-> idx, err |-> "ok"]
    ELSE IF idx >= Len(ColumnField(d, key)) THEN [v |-> <<>>, err |-> "IndexError"]
    ELSE [v |-> ColumnField(d, key)[idx + 1], err |-> "ok"]

\* A setter that revalidates the dataset after the assignment.
Column_setitem_update(d, idx, key, value) ==
    IF key \notin _ALLOWED_KEYS THEN [ds |-> d, err |-> "KeyError"]
    ELSE IF idx >= Len(ColumnField(d, key)) THEN [ds |-> d, err |-> "IndexError"]
    ELSE update_attributes(
           CASE key = "name" -> [d EXCEPT !.names[idx + 1] = value]
             [] key = "unit" -> [d EXCEPT !.units[idx + 1] = value]
             [] key = "group_idx" -> [d EXCEPT !.groups_idx[idx + 1] = value]
             [] OTHER -> [d EXCEPT !.data[idx + 1] = value])

\* Column.__setitem__(key, value) on Column(d, idx): the property setters
\* assign the entry idx of the list, or the column idx of the matrix.
Column_setitem(d, idx, key, value) ==
    IF key \notin _ALLOWED_KEYS THEN [ds |-> d, err |-> "KeyError"]
    ELSE IF idx >= Len(ColumnField(d, key)) THEN [ds |-> d, err |-> "IndexError"]
    ELSE [ds |-> CASE key = "name" -> [d EXCEPT !.names[idx + 1] = value]
                   [] key = "unit" -> [d EXCEPT !.units[idx + 1] = value]
                   [] key = "group_idx" -> [d EXCEPT !.groups_idx[idx + 1] = value]
                   [] OTHER -> [d EXCEPT !.data[idx + 1] = value],
          err |-> "ok"]

\* The members of idxs in ascending order.
Ascending(idxs) ==
    [n \in 1..Cardinality(idxs) |->
        CHOOSE i \in idxs : Cardinality({k \in idxs : k < i}) = n - 1]

\* list(dict.fromkeys(attr)): the distinct values in first-seen order.
FirstSeen(attr) ==
    LET firsts == Ascending({i \in 1..Len(attr) :
                               \A k \in 1..(i - 1) : attr[k] # attr[i]})
    IN [n \in 1..Len(firsts) |-> attr[firsts[n]]]

\* DataSet.columns_to_dataset(self, columns, extended) for the Columns of src at
\* the positions ps. Column.name, .unit, .group_idx, .father_idx and
\* .initial_idx read the lists of src at the position of the Column.
columns_to_dataset(self, src, ps, extended) ==
    IF \E k \in 1..Len(ps) :
          \/ ps[k] >= Len(src.names)
          \/ ps[k] >= Len(src.units)
          \/ ps[k] >= Len(src.groups_idx)
          \/ ps[k] >= Len(src.father_idx)
          \/ ps[k] >= Len(src.initial_idx)
    THEN [ds |-> self, err |-> "IndexError"]
    ELSE LET local_dataset ==
               update_attributes(
                 [NewDataSet EXCEPT
                    !.data = Pick(src.data, ps),
                    !.nrows = IF ps = <<>> THEN self.nrows ELSE src.nrows,
                    !.names = Pick(src.names, ps),
                    !.units = Pick(src.units, ps),
                    !.groups_idx = Pick(src.groups_idx, ps),
                    !.father_idx = Pick(src.father_idx, ps),
                    !.initial_idx = Pick(src.initial_idx, ps)])
         IN IF local_dataset.err # "ok"
            THEN [ds |-> self, err |-> local_dataset.err]
            ELSE IF extended THEN expandata(self, local_dataset.ds)
                 ELSE local_dataset

\* attr_map of DataSet.iter
attr_map(d, method) ==
    CASE method = "groups" -> d.groups_idx
      [] method = "names" -> d.names
      [] method = "units" -> d.units
      [] method = "group_local_idx" -> d.group_local_idx
      [] OTHER -> <<>>

IterMethods == {"groups", "names", "units", "group_local_idx"}

\* One turn of the loop of DataSet.iter: the sub-dataset of the columns whose
\* attribute is key.
IterStep(d, attr, key) ==
    IF \E n \in 1..Len(d.local_idx) :
          \/ d.local_idx[n] >= Len(attr)
          \/ /\ attr[d.local_idx[n] + 1] = key
             /\ ColumnList_getitem(d, d.local_idx[n]) = None
    THEN [ds |-> NewDataSet, err |-> "IndexError"]
    ELSE LET at == Ascending({n \in 1..Len(d.local_idx) :
                                attr[d.local_idx[n] + 1] = key})
             cols == [n \in 1..Len(at) |-> d.local_idx[at[n]]]
         IN columns_to_dataset(NewDataSet, d, cols, FALSE)

\* list(d.iter(method)): the sub-datasets yielded before the generator ends or
\* raises, and the fault it raised.
iter(d, method) ==
    IF method \notin IterMethods
    THEN [subs |-> <<>>, err |-> "ValueError"]
    ELSE LET attr == attr_map(d, method)
             keys == FirstSeen(attr)
             step == [n \in 1..Len(keys) |-> IterStep(d, attr, keys[n])]
             stop == {n \in 1..Len(keys) : step[n].err # "ok"}
             upto == IF stop = {} THEN Len(keys)
                     ELSE (CHOOSE n \in stop : \A k \in stop : n <= k) - 1
         IN [subs |-> [n \in 1..upto |-> step[n].ds],
             err |-> IF stop = {} THEN "ok" ELSE step[upto + 1].err]

-----------------------------------------------------------------------------
(* Strings *)

sAll == <<"a", "l", "l">>
sGroupKw == <<"g", "r", "o", "u", "p">>
sGroups == <<"G", "r", "o", "u", "p", "s">>
sGroup1 == <<"G", "r", "o", "u", "p", "1">>
sZa == <<"Z", "a">>
sZb == <<"Z", "b">>
sV == <<"V">>
sA == <<"A">>
sNone == <<"n", "o">>
sNormOf == <<"N", "o", "r", "m", "_", "o", "f", "_">>
sUnderscore == <<"_">>
sUnitless == <<"u", "n", "i", "t", "l", "e", "s", "s">>

UpperCase == <<"A", "B", "C", "D", "E", "F", "G", "H", "I", "J", "K", "L", "M",
               "N", "O", "P", "Q", "R", "S", "T", "U", "V", "W", "X", "Y", "Z">>
LowerCase == <<"a", "b", "c", "d", "e", "f", "g", "h", "i", "j", "k", "l", "m",
               "n", "o", "p", "q", "r", "s", "t", "u", "v", "w", "x", "y", "z">>

\* Case folding of one character, as re.IGNORECASE compares it.
Lower(c) ==
    IF \E k \in 1..Len(UpperCase) : UpperCase[k] = c
    THEN LowerCase[CHOOSE k \in 1..Len(UpperCase) : UpperCase[k] = c]
    ELSE c

\* re.match(r'group\w*', var, re.IGNORECASE): anchored at the start only, and
\* \w* also matches the empty string, so the match is "var starts with group".
GroupMatch(var) ==
    /\ Len(var) >= Len(sGroupKw)
    /\ \A k \in 1..Len(sGroupKw) : Lower(var[k]) = sGroupKw[k]

\* x in lst
In(x, lst) == \E k \in 1..Len(lst) : lst[k] = x

-----------------------------------------------------------------------------
(* DataProcessLayer *)

\* The positional arguments of select/by.  k is the Python type of the
\* argument: "str", "int", "list" (a list of int) or "nested" (a list or tuple
\* that is not purely of int, its elements in sub).
StrTerm(s) == [k |-> "str", s |-> s, i |-> 0, l |-> <<>>, sub |-> <<>>]
IntTerm(i) == [k |-> "int", s |-> <<>>, i |-> i, l |-> <<>>, sub |-> <<>>]
ListTerm(l) == [k |-> "list", s |-> <<>>, i |-> 0, l |-> l, sub |-> <<>>]
NestedTerm(sub) == [k |-> "nested", s |-> <<>>, i |-> 0, l |-> <<>>, sub |-> sub]

\* [i for i, x in enumerate(varset) if x == varname]
MatchIdx(varname, varset) ==
    SelectSeq(PyRange(Len(varset)), LAMBDA i : varset[i + 1] = varname)

\* The columns of the listed groups taken in column order.
GroupIdx_bycolumn(group_idx_list, groups_idx) ==
    SelectSeq(PyRange(Len(groups_idx)), LAMBDA i : In(groups_idx[i + 1], group_idx_list))

\* [idx for g in group_idx_list for idx, grp in enumerate(groups_idx) if grp == g]
GroupIdx(group_idx_list, groups_idx) ==
    Flatten([k \in 1..Len(group_idx_list) |->
               MatchIdx(group_idx_list[k], groups_idx)])

\* getdata taking initial_idx from the positions in father_dataset.
getdata_local(varlist_idx, father_dataset) ==
    IF Len(varlist_idx) = 0 THEN [ds |-> NewDataSet, err |-> "ValueError"]
    ELSE IF \E k \in 1..Len(varlist_idx) :
              ~InRange(varlist_idx[k], NCols(father_dataset))
    THEN [ds |-> NewDataSet, err |-> "IndexError"]
    ELSE update_attributes(
           [NewDataSet EXCEPT
              !.initial_idx = varlist_idx,
              !.father_idx = varlist_idx,
              !.data = Pick(father_dataset.data, varlist_idx),
              !.nrows = father_dataset.nrows,
              !.names = Pick(father_dataset.names, varlist_idx),
              !.units = Pick(father_dataset.units, varlist_idx),
              !.groups_idx = Pick(father_dataset.groups_idx, varlist_idx)])

\* getdata with a lineage test that compares the lengths of initial_idx and
\* local_idx instead of their entries.
getdata_rootlen(varlist_idx, father_dataset) ==
    LET f_initial == father_dataset.initial_idx
        root == f_initial = <<>> \/ Len(f_initial) = Len(father_dataset.local_idx)
    IN IF Len(varlist_idx) = 0 THEN [ds |-> NewDataSet, err |-> "ValueError"]
       ELSE IF \/ ~root /\ \E k \in 1..Len(varlist_idx) :
                     ~InRange(varlist_idx[k], Len(f_initial))
               \/ \E k \in 1..Len(varlist_idx) :
                     \/ ~InRange(varlist_idx[k], NCols(father_dataset))
                     \/ ~InRange(varlist_idx[k], Len(father_dataset.names))
                     \/ ~InRange(varlist_idx[k], Len(father_dataset.units))
                     \/ ~InRange(varlist_idx[k], Len(father_dataset.groups_idx))
       THEN [ds |-> NewDataSet, err |-> "IndexError"]
       ELSE update_attributes(
              [NewDataSet EXCEPT
                 !.initial_idx = IF root THEN varlist_idx
                                 ELSE Pick(f_initial, varlist_idx),
                 !.father_idx = varlist_idx,
                 !.data = Pick(father_dataset.data, varlist_idx),
                 !.nrows = father_dataset.nrows,
                 !.names = Pick(father_dataset.names, varlist_idx),
                 !.units = Pick(father_dataset.units, varlist_idx),
                 !.groups_idx = Pick(father_dataset.groups_idx, varlist_idx)])

\* DataProcessLayer.getdata once varlist_idx is resolved (line 263 is MatchIdx).
getdata(varlist_idx, father_dataset) ==
    LET f_initial == father_dataset.initial_idx
        root == f_initial = <<>> \/ f_initial = father_dataset.local_idx
    IN IF Len(varlist_idx) = 0 THEN [ds |-> NewDataSet, err |-> "ValueError"]
       ELSE IF \/ ~root /\ \E k \in 1..Len(varlist_idx) :
                     ~InRange(varlist_idx[k], Len(f_initial))
               \/ \E k \in 1..Len(varlist_idx) :
                     \/ ~InRange(varlist_idx[k], NCols(father_dataset))
                     \/ ~InRange(varlist_idx[k], Len(father_dataset.names))
                     \/ ~InRange(varlist_idx[k], Len(father_dataset.units))
                     \/ ~InRange(varlist_idx[k], Len(father_dataset.groups_idx))
       THEN [ds |-> NewDataSet, err |-> "IndexError"]
       ELSE update_attributes(
              [NewDataSet EXCEPT
                 !.initial_idx = IF root THEN varlist_idx
                                 ELSE Pick(f_initial, varlist_idx),
                 !.father_idx = varlist_idx,
                 !.data = Pick(father_dataset.data, varlist_idx),
                 !.nrows = father_dataset.nrows,
                 !.names = Pick(father_dataset.names, varlist_idx),
                 !.units = Pick(father_dataset.units, varlist_idx),
                 !.groups_idx = Pick(father_dataset.groups_idx, varlist_idx)])

\* The 'all' branch of select: deepcopy with father_idx / initial_idx reset.
SelectAll(dataset_for_select) ==
    [dataset_for_select EXCEPT
       !.father_idx = PyRange(Len(dataset_for_select.names)),
       !.initial_idx = PyRange(Len(dataset_for_select.names))]

RECURSIVE select(_, _, _, _, _, _)
RECURSIVE SelectLoop(_, _, _)

\* The branches of select with the unit test placed before the name test.
TermBranch_unitfirst(args, i, dfs) ==
    LET var == args[i]
    IN IF var.k = "str" THEN
            IF var.s = sAll THEN [do |-> "all", idx |-> <<>>]
            ELSE IF GroupMatch(var.s) THEN
                 IF Len(args) > i /\ args[i + 1].k = "list"
                 THEN [do |-> "getdata", idx |-> GroupIdx(args[i + 1].l, dfs.groups_idx)]
                 ELSE [do |-> "raise", idx |-> <<>>]
            ELSE IF In(var.s, dfs.units)
            THEN [do |-> "getdata", idx |-> MatchIdx(var.s, dfs.units)]
            ELSE IF In(var.s, dfs.names)
            THEN [do |-> "getdata", idx |-> MatchIdx(var.s, dfs.names)]
            ELSE [do |-> "pass", idx |-> <<>>]
       ELSE IF var.k = "int" THEN [do |-> "getdata", idx |-> <<var.i>>]
       ELSE IF var.k = "list" THEN [do |-> "getdata", idx |-> var.l]
       ELSE [do |-> "nested", idx |-> <<>>]

\* What the branch of select taken by the term args[i] does (lines 148-198):
\* "all" (copy and continue), "raise" (the group keyword without its list),
\* "getdata" with the resolved varlist_idx, "nested", or "pass" when no branch
\* matches and the local variable Selected_data keeps its value.
TermBranch(args, i, dfs) ==
    LET var == args[i]
    IN IF var.k = "str" THEN
            IF var.s = sAll THEN [do |-> "all", idx |-> <<>>]
            ELSE IF GroupMatch(var.s) THEN
                 IF Len(args) > i /\ args[i + 1].k = "list"
                 THEN [do |-> "getdata", idx |-> GroupIdx(args[i + 1].l, dfs.groups_idx)]
                 ELSE [do |-> "raise", idx |-> <<>>]
            ELSE IF In(var.s, dfs.names)
            THEN [do |-> "getdata", idx |-> MatchIdx(var.s, dfs.names)]
            ELSE IF In(var.s, dfs.units)
            THEN [do |-> "getdata", idx |-> MatchIdx(var.s, dfs.units)]
            ELSE [do |-> "pass", idx |-> <<>>]
       ELSE IF var.k = "int" THEN [do |-> "getdata", idx |-> <<var.i>>]
       ELSE IF var.k = "list" THEN [do |-> "getdata", idx |-> var.l]
       ELSE [do |-> "nested", idx |-> <<>>]

\* The local variable Selected_data after the branch, or the fault it raises.
TermResult(b, var, cur, dfs) ==
    IF b.do = "getdata" THEN getdata(b.idx, dfs)
    ELSE IF b.do = "nested"
    THEN Let1({[ds |-> r.Selected_data, err |-> r.err] :
                 r \in {select(NewDataSet, var.sub, dfs, FALSE, TRUE, FALSE)}})
    ELSE IF b.do = "raise" THEN [ds |-> cur, err |-> "ValueError"]
    ELSE [ds |-> cur, err |-> "ok"]

\* Lines 203-206: merge the local Selected_data into self.Selected_data.
Merge(acc, cur, extended) ==
    IF extended THEN expandata(acc, cur) ELSE [ds |-> cur, err |-> "ok"]

\* One pass of the loop of select (lines 142-206) over the loop state st:
\* i the position, cur the local variable Selected_data, acc
\* self.Selected_data, dfs dataset_for_select, alias whether dataset_for_select
\* and self.Selected_data are one object, err the fault raised so far.
SelectStep(st, args, extended) ==
    IF st.skip_next THEN [st EXCEPT !.i = @ + 1, !.skip_next = FALSE]
    ELSE Let1({
      IF b.do = "all"
      THEN [st EXCEPT !.i = @ + 1, !.cur = SelectAll(st.dfs)]
      ELSE Let1({
        IF c.err # "ok" THEN [st EXCEPT !.err = c.err]
        ELSE Let1({
          [st EXCEPT !.i = @ + 1,
                     !.skip_next = (args[st.i].k = "str" /\ GroupMatch(args[st.i].s)),
                     !.cur = c.ds,
                     !.acc = m.ds,
                     !.alias = st.alias /\ extended,
                     !.dfs = IF st.alias /\ extended THEN m.ds ELSE st.dfs,
                     !.err = m.err] :
          m \in {Merge(st.acc, c.ds, extended)}}) :
        c \in {TermResult(b, args[st.i], st.cur, st.dfs)}}) :
      b \in {TermBranch(args, st.i, st.dfs)}})

SelectLoop(st, args, extended) ==
    IF st.i > Len(args) \/ st.err # "ok" THEN st
    ELSE SelectLoop(SelectStep(st, args, extended), args, extended)

\* Lines 210-217 on the accumulator the loop left; from is the object
\* dataset_for_select as the call leaves it.
Finish(st) ==
    IF st.err # "ok"
    THEN [Selected_data |-> st.acc, err |-> st.err, called |-> FALSE,
          from |-> IF st.alias THEN st.acc ELSE st.dfs]
    ELSE [Selected_data |-> [st.acc EXCEPT !.generation = @ + 1],
          err |-> IF st.acc.status # "written" THEN "SelectionIncomplete" ELSE "ok",
          called |-> TRUE,
          from |-> IF st.alias THEN [st.acc EXCEPT !.generation = @ + 1]
                   ELSE st.dfs]

\* DataProcessLayer.select(*args, dataset_for_select, extended, inherit) on a
\* layer whose Selected_data is self_Selected_data.  alias: dataset_for_select
\* is the object self.Selected_data (the call by makes).  called: whether the
\* call reached line 210 and set called_select.
select(self_Selected_data, args, dataset_for_select, alias, extended, inherit) ==
    Finish(SelectLoop(
             [i |-> 1, skip_next |-> FALSE,
              acc |-> IF inherit THEN self_Selected_data ELSE NewDataSet,
              cur |-> NewDataSet, dfs |-> dataset_for_select,
              alias |-> alias /\ inherit, err |-> "ok"],
             args, extended))

-----------------------------------------------------------------------------
(* DataSet._rearrange_columns *)

\* An ordering by groups_idx alone that puts the later of two columns of a
\* group first.
Precedes_later(d, i, j) ==
    \/ d.groups_idx[i] < d.groups_idx[j]
    \/ d.groups_idx[i] = d.groups_idx[j] /\ i > j

\* np.lexsort((group_local_idx, groups_idx)): the stable ordering of the
\* positions by groups_idx, then group_local_idx; position i precedes j.
Precedes(d, i, j) ==
    \/ d.groups_idx[i] < d.groups_idx[j]
    \/ /\ d.groups_idx[i] = d.groups_idx[j]
       /\ \/ d.group_local_idx[i] < d.group_local_idx[j]
          \/ d.group_local_idx[i] = d.group_local_idx[j] /\ i < j

\* The positions in their current order.
LexOrder_asis(d) == PyRange(Len(d.groups_idx))

LexOrder(d) ==
    LET n == Len(d.groups_idx)
        rank(i) == Cardinality({j \in 1..n : Precedes(d, j, i)})
    IN [r \in 1..n |-> (CHOOSE i \in 1..n : rank(i) = r - 1) - 1]

\* DataSet._rearrange_columns.  np.column_stack raises ValueError when the
\* three index lists differ in length and np.lexsort TypeError on a None
\* group id; the attributes are then reassigned one by one (lines 270-277),
\* so an IndexError leaves the ones assigned before it.
_rearrange_columns(d) ==
    IF ~(Len(d.local_idx) = Len(d.groups_idx)
         /\ Len(d.groups_idx) = Len(d.group_local_idx))
    THEN [ds |-> d, err |-> "ValueError"]
    ELSE IF In(None, d.groups_idx) THEN [ds |-> d, err |-> "TypeError"]
    ELSE LET order == LexOrder(d)
             n == Len(order)
             d1 == [d EXCEPT !.data = Pick(d.data, order)]
             d2 == [d1 EXCEPT !.names = Pick(d.names, order)]
             d3 == [d2 EXCEPT !.units = Pick(d.units, order)]
             d4 == [d3 EXCEPT !.groups_idx = Pick(d.groups_idx, order),
                              !.group_local_idx = Pick(d.group_local_idx, order),
                              !.local_idx = PyRange(n)]
             d5 == [d4 EXCEPT !.father_idx = Pick(d.father_idx, order)]
             d6 == [d5 EXCEPT !.initial_idx = Pick(d.initial_idx, order)]
         IN IF n > NCols(d) THEN [ds |-> d, err |-> "IndexError"]
            ELSE IF n > Len(d.names) THEN [ds |-> d1, err |-> "IndexError"]
            ELSE IF n > Len(d.units) THEN [ds |-> d2, err |-> "IndexError"]
            ELSE IF n > Len(d.father_idx) THEN [ds |-> d4, err |-> "IndexError"]
            ELSE IF n > Len(d.initial_idx) THEN [ds |-> d5, err |-> "IndexError"]
            ELSE update_attributes(d6)

-----------------------------------------------------------------------------
(* DataTransformer *)

Abs(x) == IF x < 0 THEN -x ELSE x

RECURSIVE Pow(_, _)
Pow(x, p) == IF p = 0 THEN 1 ELSE x * Pow(x, p - 1)

\* v ** (1/order) on the integer cells of the model: the integer root,
\* exact on the perfect powers the model's data produce.
Root(v, order) == CHOOSE r \in 0..v : Pow(r, order) <= v /\ v < Pow(r + 1, order)

RECURSIVE SumAbsPow(_, _)
SumAbsPow(xs, order) ==
    IF xs = <<>> THEN 0 ELSE Pow(Abs(Head(xs)), order) + SumAbsPow(Tail(xs), order)

\* np.sum(np.abs(col_data)**order, axis=1)**(1/order): one value per row.
NormValue(cols, nrows, order) ==
    [r \in 1..nrows |->
        Root(SumAbsPow([c \in 1..Len(cols) |-> cols[c][r]], order), order)]

\* DataTransformer.__init__: data is the array bound at construction;
\* names, units and groups_idx are the list objects of the dataset, which
\* expandata extends in place, so while own (self.dataset is still the
\* object given to __init__) they are read from dataset.
NoTransformer ==
    [on |-> FALSE, own |-> FALSE, dataset |-> NewDataSet, data |-> <<>>,
     nrows |-> 0, names |-> <<>>, units |-> <<>>, groups_idx |-> <<>>,
     num_datagroups |-> 0]

DataTransformer(d) ==
    [on |-> TRUE, own |-> TRUE, dataset |-> d, data |-> d.data, nrows |-> d.nrows,
     names |-> d.names, units |-> d.units, groups_idx |-> d.groups_idx,
     num_datagroups |-> d.num_datagroups]

TrNames(t) == IF t.own THEN t.dataset.names ELSE t.names
TrUnits(t) == IF t.own THEN t.dataset.units ELSE t.units
TrGroups(t) == IF t.own THEN t.dataset.groups_idx ELSE t.groups_idx

\* The source argument of Norm: kind "column" (Column handles at positions l
\* of the dataset cols), "none" (indicies is None), "int" or "list".
\* DataTransformer._resolve_input_data
_resolve_input_data(t, src, cols) ==
    IF src.kind = "column"
    THEN [err |-> "ok", col_data |-> Pick(cols.data, src.l), nrows |-> cols.nrows,
          names |-> Pick(cols.names, src.l), units |-> Pick(cols.units, src.l),
          groups_idx |-> Pick(cols.groups_idx, src.l)]
    ELSE IF src.kind = "none"
    THEN [err |-> "ok", col_data |-> t.data, nrows |-> t.nrows,
          names |-> TrNames(t), units |-> TrUnits(t), groups_idx |-> TrGroups(t)]
    ELSE IF src.kind = "int"
    THEN IF \/ ~InRange(src.i, Len(TrNames(t)))
            \/ ~InRange(src.i, Len(TrUnits(t)))
            \/ ~InRange(src.i, Len(TrGroups(t)))
         THEN [err |-> "IndexError", col_data |-> <<>>, nrows |-> 0,
               names |-> <<>>, units |-> <<>>, groups_idx |-> <<>>]
         ELSE LET n == Len(t.data)
                  lo == IF src.i < 0 THEN (IF src.i + n < 0 THEN 0 ELSE src.i + n)
                        ELSE (IF src.i > n THEN n ELSE src.i)
                  h0 == src.i + 1
                  hi == IF h0 < 0 THEN (IF h0 + n < 0 THEN 0 ELSE h0 + n)
                        ELSE (IF h0 > n THEN n ELSE h0)
              IN [err |-> "ok",
                  col_data |-> SubSeq(t.data, lo + 1, hi),
                  nrows |-> t.nrows,
                  names |-> <<TrNames(t)[PyIdx(src.i, Len(TrNames(t))) + 1]>>,
                  units |-> <<TrUnits(t)[PyIdx(src.i, Len(TrUnits(t))) + 1]>>,
                  groups_idx |-> <<TrGroups(t)[PyIdx(src.i, Len(TrGroups(t))) + 1]>>]
    ELSE IF \E k \in 1..Len(src.l) :
              \/ ~InRange(src.l[k], Len(t.data))
              \/ ~InRange(src.l[k], Len(TrNames(t)))
              \/ ~InRange(src.l[k], Len(TrUnits(t)))
              \/ ~InRange(src.l[k], Len(TrGroups(t)))
         THEN [err |-> "IndexError", col_data |-> <<>>, nrows |-> 0,
               names |-> <<>>, units |-> <<>>, groups_idx |-> <<>>]
         ELSE [err |-> "ok", col_data |-> Pick(t.data, src.l), nrows |-> t.nrows,
               names |-> Pick(TrNames(t), src.l), units |-> Pick(TrUnits(t), src.l),
               groups_idx |-> Pick(TrGroups(t), src.l)]

RECURSIVE Join(_, _)
\* sep.join(strs)
Join(sep, strs) ==
    IF strs = <<>> THEN <<>>
    ELSE IF Len(strs) = 1 THEN strs[1]
    ELSE strs[1] \o sep \o Join(sep, Tail(strs))

\* The name rule of DataTransformer.__update_dataset_attributes.
NormName(names_extracted) ==
    IF Len(names_extracted) = 1 THEN names_extracted[1]
    ELSE IF Cardinality(Range(names_extracted)) = 1 THEN sNormOf \o names_extracted[1]
    ELSE sNormOf \o Join(sUnderscore, names_extracted)

\* The unit rule; units_input.given is "units_input is not None".
NormUnit(units_extracted, units_input) ==
    IF units_input.given THEN units_input.v
    ELSE IF Cardinality(Range(units_extracted)) = 1 THEN units_extracted[1]
    ELSE sUnitless

\* The group rule; err is "ValueError" when it raises.  num is the
\* transformer's num_datagroups after the call.
NormGroup(t, groups_idx_extracted, groups_idx_input, New_group) ==
    IF groups_idx_input # None
    THEN [err |-> "ok", g |-> groups_idx_input, num |-> t.num_datagroups]
    ELSE IF New_group
    THEN [err |-> "ok", g |-> t.num_datagroups + 1, num |-> t.num_datagroups + 1]
    ELSE IF Cardinality(Range(groups_idx_extracted)) = 1
    THEN [err |-> "ok", g |-> groups_idx_extracted[1], num |-> t.num_datagroups]
    ELSE [err |-> "GroupAmbiguous", g |-> None, num |-> t.num_datagroups]

\* DataTransformer._create_local_dataset
_create_local_dataset(data, nrows, name, unit, group_idx) ==
    update_attributes(
      [NewDataSet EXCEPT !.data = <<data>>, !.nrows = nrows, !.names = <<name>>,
                         !.units = <<unit>>, !.groups_idx = <<group_idx>>,
                         !.father_idx = <<None>>, !.initial_idx = <<None>>])

\* DataTransformer.Norm: the transformer after the call and the fault, if any.
Norm(t, order, src, cols, norm_unit, New_group, norm_groups_idx, extended) ==
    LET in == _resolve_input_data(t, src, cols)
    IN IF in.err # "ok" THEN [t |-> t, err |-> in.err]
       ELSE LET grp == NormGroup(t, in.groups_idx, norm_groups_idx, New_group)
                t1 == [t EXCEPT !.num_datagroups = grp.num]
            IN IF grp.err # "ok" THEN [t |-> t1, err |-> grp.err]
               ELSE LET loc == _create_local_dataset(
                                 NormValue(in.col_data, in.nrows, order), in.nrows,
                                 NormName(in.names), NormUnit(in.units, norm_unit),
                                 grp.g)
                    IN IF loc.err # "ok" THEN [t |-> t1, err |-> loc.err]
                       ELSE IF extended
                       THEN LET e == expandata(t1.dataset, loc.ds)
                            IN [t |-> [t1 EXCEPT !.dataset = e.ds], err |-> e.err]
                       ELSE [t |-> [t1 EXCEPT !.dataset = loc.ds, !.own = FALSE,
                                              !.names = TrNames(t),
                                              !.units = TrUnits(t),
                                              !.groups_idx = TrGroups(t)],
                             err |-> "ok"]

-----------------------------------------------------------------------------
(* The loaded datasets and the arguments the model draws from *)

\* Dataloader.load_data from line 196 and Dataloader._formatter: the DataSet
\* built from the parsed names, units, group indices and matrix.
load_data(names, units, groups_idx, data, nrows) ==
    [NewDataSet EXCEPT
       !.data = data, !.nrows = nrows, !.names = names, !.units = units,
       !.groups_idx = groups_idx,
       !.num_datagroups = Cardinality(Range(groups_idx)),
       !.group_local_idx = GroupLocalLoop(groups_idx, <<>>, <<>>),
       !.local_idx = PyRange(Len(data)),
       !.initial_idx = PyRange(Len(data)),
       !.father_idx = PyRange(Len(data)),
       !.status = "loaded"]

Cells == << <<3>>, <<-4>>, <<5>>, <<12>> >>
NoCells == << <<>>, <<>>, <<>>, <<>> >>

\* Two groups of two columns, named per column.
RootCols == load_data(<<sZa, sZb, sZa, sZb>>, <<sV, sA, sV, sA>>, <<0, 0, 1, 1>>, Cells, 1)
\* Named by group label, as the loader names columns; one label is "Group1".
RootLabels == load_data(<<sGroup1, sGroup1, sZa, sZa>>, <<sV, sA, sV, sA>>, <<0, 0, 1, 1>>, Cells, 1)
\* A column name that is also the unit of other columns.
RootMixed == load_data(<<sV, sZa, sV, sZa>>, <<sA, sV, sA, sV>>, <<0, 0, 1, 1>>, Cells, 1)
\* A hand-built DataSet whose lineage lists were never filled.
RootUnset == [RootCols EXCEPT !.father_idx = <<>>, !.initial_idx = <<>>]
\* A file with a header and no data rows.
RootNoRows == load_data(<<sZa, sZb, sZa, sZb>>, <<sV, sA, sV, sA>>, <<0, 0, 1, 1>>, NoCells, 0)

\* Columns named per column, the two groups in opposite order: the columns
\* named "Za" stand at different positions of their groups.
RootCross == load_data(<<sZa, sZb, sZb, sZa>>, <<sV, sA, sV, sA>>, <<0, 0, 1, 1>>, Cells, 1)

Roots == {RootCols, RootLabels, RootMixed, RootCross, RootUnset, RootNoRows}

\* The datasets the whole system is run on.
SysRoots == {RootCols, RootUnset, RootNoRows}

MaxTerms == 2
MaxArgs == 4
MaxSteps == 3
MaxCols == 8

RECURSIVE SeqsUpTo(_, _)
\* The non-empty sequences over S of length at most n.
SeqsUpTo(S, n) ==
    IF n = 0 THEN {}
    ELSE LET shorter == SeqsUpTo(S, n - 1)
         IN {<<x>> : x \in S} \cup shorter
              \cup {Append(q, x) : q \in {p \in shorter : Len(p) = n - 1}, x \in S}

\* Arguments of the calls of the whole system.
SysArgs ==
    {<<IntTerm(0)>>, <<ListTerm(<<1, 3>>)>>, <<StrTerm(sNone)>>,
     <<StrTerm(sGroups), ListTerm(<<1, 0>>)>>, <<StrTerm(sAll), StrTerm(sNone)>>}

\* Terms of the calls of a chain select(...).by(...).
ChainTerms ==
    {IntTerm(0), IntTerm(1), IntTerm(-1), ListTerm(<<1, 3>>), ListTerm(<<2, 0>>),
     StrTerm(sZa), StrTerm(sV), StrTerm(sGroup1), StrTerm(sNone), StrTerm(sAll)}

ChainArgs == SeqsUpTo(ChainTerms, MaxTerms)

\* Terms of one select call with up to MaxArgs terms.
SelectTerms ==
    {IntTerm(0), ListTerm(<<1, 0>>), ListTerm(<<1>>), StrTerm(sGroups),
     StrTerm(sGroup1), StrTerm(sZa), StrTerm(sV), StrTerm(sNone), StrTerm(sAll)}

SelectArgs == SeqsUpTo(SelectTerms, MaxArgs)

\* Datasets a caller builds by hand and hands to expandata.
MkOther(names, units, groups_idx, father_idx, initial_idx, data) ==
    [NewDataSet EXCEPT !.data = data, !.nrows = 1, !.names = names, !.units = units,
                       !.groups_idx = groups_idx, !.father_idx = father_idx,
                       !.initial_idx = initial_idx]

Others ==
    {MkOther(<<sZa>>, <<sV>>, <<None>>, <<None>>, <<None>>, << <<7>> >>),
     MkOther(<<sZa, sZb>>, <<sV, sA>>, <<None, None>>, <<None, None>>, <<0, 1>>,
             << <<7>>, <<8>> >>),
     MkOther(<<sZa, sZa>>, <<sV, sV>>, <<None, None>>, <<None, None>>, <<None, None>>,
             << <<7>>, <<8>> >>),
     MkOther(<<sZb>>, <<sA>>, <<2>>, <<0>>, <<0>>, << <<9>> >>),
     MkOther(<<sZb>>, <<sA>>, <<2>>, <<>>, <<>>, << <<9>> >>),
     MkOther(<<sZb>>, <<sV>>, <<0>>, <<0>>, <<0>>, << <<9>>, <<10>> >>),
     NewDataSet}

NormSources ==
    {[kind |-> "none", i |-> 0, l |-> <<>>],
     [kind |-> "list", i |-> 0, l |-> <<0, 1>>]}

NormUnits == {[given |-> FALSE, v |-> <<>>]}

NormGroups == {None, 5}

Orders == {2}

-----------------------------------------------------------------------------
(* The system: one DataProcessLayer over a loaded dataset, its selection
   result, and one DataTransformer.  last, call and prev record the calls made:
   last the latest call of any kind, call the latest select / by, prev the
   select / by before it; chain the select / by calls made so far, each with
   its fault and whether it reached line 210 (called_select = True); faulted
   whether any call has raised. *)

\* The record of a call: its name, the fault it raised, its arguments, the
\* dataset it was given (dataset_for_select or other) and the object it acted
\* on as it was before the call.
Rec(op, err, args, extended, inherit, arg, pre) ==
    [op |-> op, err |-> err, args |-> args, extended |-> extended,
     inherit |-> inherit, arg |-> arg, pre |-> pre]

NoCall == Rec("none", "ok", <<>>, TRUE, FALSE, NewDataSet, NewDataSet)

\* The arguments of the latest Norm call, the transformer it was called on
\* and the dataset its Column arguments belong to; none before the first call.
\* ids lists the group ids of the outputs of the calls made with New_group
\* and no norm_groups_idx.
NoNorm ==
    [order |-> 0, src |-> [kind |-> "none", i |-> 0, l |-> <<>>],
     norm_unit |-> [given |-> FALSE, v |-> <<>>], New_group |-> FALSE,
     norm_groups_idx |-> None, extended |-> TRUE, t |-> NoTransformer,
     cols |-> NewDataSet, ids |-> <<>>]

\* No Column handle taken.  A handle is Column(of, idx); key and v are the key
\* and the value of the latest access through it.
NoHandle == [on |-> FALSE, of |-> "dataset", idx |-> 0, key |-> "", v |-> <<>>]

\* A layer constructed over d: DataProcessLayer(dataset=d).
Layer(d) ==
    /\ dataset = d
    /\ Selected_data = NewDataSet
    /\ called_select = FALSE
    /\ last = NoCall
    /\ call = NoCall
    /\ prev = NoCall
    /\ faulted = FALSE
    /\ ncalls = 0
    /\ nops = 0
    /\ tr = NoTransformer
    /\ yielded = <<>>
    /\ normcall = NoNorm
    /\ source = d
    /\ handle = NoHandle
    /\ chain = <<>>

Init == \E d \in SysRoots : Layer(d)

InitRoots == \E d \in Roots : Layer(d)

\* layer.select(*args, extended=extended, inherit=inherit)
Select(args, extended, inherit) ==
    LET r == select(Selected_data, args, dataset, FALSE, extended, inherit)
        rec == Rec("select", r.err, args, extended, inherit, dataset, Selected_data)
    IN /\ NCols(r.Selected_data) <= MaxCols
       /\ Selected_data' = r.Selected_data
       /\ source' = r.from
       /\ called_select' = (called_select \/ r.called)
       /\ last' = rec
       /\ call' = rec
       /\ prev' = call
       /\ chain' = Append(chain, [op |-> rec.op, err |-> r.err, called |-> r.called])
       /\ faulted' = (faulted \/ r.err # "ok")
       /\ ncalls' = ncalls + 1
       /\ UNCHANGED <<dataset, nops, tr, yielded, normcall, handle>>

\* layer.by(*args, extended=extended, inherit=inherit)
By(args, extended, inherit) ==
    LET r == IF called_select
             THEN select(Selected_data, args, Selected_data, TRUE, extended, inherit)
             ELSE [Selected_data |-> Selected_data, err |-> "ChainSequencing",
                   called |-> FALSE, from |-> Selected_data]
        rec == Rec("by", r.err, args, extended, inherit, Selected_data, Selected_data)
    IN /\ NCols(r.Selected_data) <= MaxCols
       /\ Selected_data' = r.Selected_data
       /\ source' = r.from
       /\ called_select' = r.called
       /\ last' = rec
       /\ call' = rec
       /\ prev' = call
       /\ chain' = Append(chain, [op |-> rec.op, err |-> r.err, called |-> r.called])
       /\ faulted' = (faulted \/ r.err # "ok")
       /\ ncalls' = ncalls + 1
       /\ UNCHANGED <<dataset, nops, tr, yielded, normcall, handle>>

\* layer.Selected_data.expandata(other)
Extend(other) ==
    LET e == expandata(Selected_data, other)
    IN /\ NCols(e.ds) <= MaxCols
       /\ Selected_data' = e.ds
       /\ last' = Rec("expandata", e.err, <<>>, TRUE, FALSE, other, Selected_data)
       /\ faulted' = (faulted \/ e.err # "ok")
       /\ nops' = nops + 1
       /\ UNCHANGED <<dataset, called_select, call, prev, chain, ncalls, tr, yielded, normcall,
                    source, handle>>

\* layer.Selected_data._rearrange_columns()
Rearrange ==
    LET e == _rearrange_columns(Selected_data)
    IN /\ Selected_data' = e.ds
       /\ last' = Rec("rearrange", e.err, <<>>, TRUE, FALSE, NewDataSet, Selected_data)
       /\ faulted' = (faulted \/ e.err # "ok")
       /\ nops' = nops + 1
       /\ UNCHANGED <<dataset, called_select, call, prev, chain, ncalls, tr, yielded, normcall,
                    source, handle>>

\* tr = DataTransformer(copy.deepcopy(layer.Selected_data))
NewTransformer ==
    /\ tr' = DataTransformer(Selected_data)
    /\ last' = Rec("transformer", "ok", <<>>, TRUE, FALSE, NewDataSet, Selected_data)
    /\ nops' = nops + 1
    /\ UNCHANGED <<dataset, Selected_data, called_select, call, prev, chain, faulted, ncalls,
                 yielded, normcall, source, handle>>

\* tr.Norm(order, indicies / column, norm_unit, New_group, norm_groups_idx, extended)
NormCall(order, src, norm_unit, New_group, norm_groups_idx, extended) ==
    LET r == Norm(tr, order, src, dataset, norm_unit, New_group, norm_groups_idx,
                  extended)
    IN /\ tr.on
       /\ NCols(r.t.dataset) <= MaxCols
       /\ tr' = r.t
       /\ last' = Rec("Norm", r.err, <<>>, extended, FALSE, NewDataSet, tr.dataset)
       /\ normcall' = [order |-> order, src |-> src, norm_unit |-> norm_unit,
                       New_group |-> New_group, norm_groups_idx |-> norm_groups_idx,
                       extended |-> extended, t |-> tr, cols |-> dataset,
                       ids |-> IF r.err = "ok" /\ New_group /\ norm_groups_idx = None
                               THEN Append(normcall.ids,
                                           r.t.dataset.groups_idx[NCols(r.t.dataset)])
                               ELSE normcall.ids]
       /\ faulted' = (faulted \/ r.err # "ok")
       /\ nops' = nops + 1
       /\ UNCHANGED <<dataset, Selected_data, called_select, call, prev, chain, ncalls, yielded,
                    source, handle>>

\* The whole system on small arguments.
Next ==
    \/ /\ ncalls + nops < MaxSteps
       /\ \E args \in SysArgs, extended \in BOOLEAN, inherit \in BOOLEAN :
             Select(args, extended, inherit)
    \/ /\ ncalls + nops < MaxSteps
       /\ \E args \in SysArgs, extended \in BOOLEAN, inherit \in BOOLEAN :
             By(args, extended, inherit)
    \/ /\ ncalls + nops < MaxSteps
       /\ \E other \in Others \cup {tr.dataset} : Extend(other)
    \/ /\ ncalls + nops < MaxSteps
       /\ Rearrange
    \/ /\ ncalls + nops < MaxSteps
       /\ NewTransformer
    \/ /\ ncalls + nops < MaxSteps
       /\ \E order \in Orders, src \in NormSources, norm_unit \in NormUnits,
             New_group \in BOOLEAN, norm_groups_idx \in NormGroups,
             extended \in BOOLEAN :
             NormCall(order, src, norm_unit, New_group, norm_groups_idx, extended)

Spec == Init /\ [][Next]_vars

\* One chain layer.select(T1).by(T2) with the default inherit.
NextChain ==
    \/ /\ ncalls = 0
       /\ \E args \in ChainArgs, extended \in BOOLEAN : Select(args, extended, FALSE)
    \/ /\ ncalls = 1
       /\ \E args \in ChainArgs, extended \in BOOLEAN : By(args, extended, FALSE)

SpecChain == InitRoots /\ [][NextChain]_vars

\* Chains of up to MaxCalls select and by calls on one layer: calls that
\* finish, calls that raise while a term is processed, and calls without terms.
FlagArgs == {<<IntTerm(0)>>, <<StrTerm(sNone)>>, <<IntTerm(0), IntTerm(9)>>, <<>>}

MaxCalls == 4

NextFlag ==
    \/ /\ ncalls < MaxCalls
       /\ \E args \in FlagArgs, extended \in BOOLEAN, inherit \in BOOLEAN :
             Select(args, extended, inherit)
    \/ /\ ncalls < MaxCalls
       /\ \E args \in FlagArgs, extended \in BOOLEAN, inherit \in BOOLEAN :
             By(args, extended, inherit)

SpecFlag == Init /\ [][NextFlag]_vars

\* One call layer.select(*args) with up to MaxArgs terms.
NextSelect ==
    /\ ncalls = 0
    /\ \E args \in SelectArgs, extended \in BOOLEAN : Select(args, extended, FALSE)

SpecSelect == InitRoots /\ [][NextSelect]_vars

\* The orderings of the positions 0..n-1.
Perms(n) ==
    {p \in [1..n -> 0..(n - 1)] : \A a, b \in 1..n : p[a] = p[b] => a = b}

\* The round trip layer.select(P).by([0, ..., m-1]) for an ordering P of the
\* positions of the dataset.
NextPerm ==
    \/ /\ ncalls = 0
       /\ \E P \in Perms(NCols(dataset)), extended \in BOOLEAN :
             Select(<<ListTerm(P)>>, extended, FALSE)
    \/ /\ ncalls = 1
       /\ \E extended \in BOOLEAN :
             By(<<ListTerm(PyRange(NCols(Selected_data)))>>, extended, FALSE)

SpecPerm == InitRoots /\ [][NextPerm]_vars

\* The selections of distinct positions of a dataset of n columns, in any
\* order.
Arrangements(n) ==
    IF n = 0 THEN {}
    ELSE {q \in SeqsUpTo(0..(n - 1), n) :
            \A a, b \in 1..Len(q) : a # b => q[a] # q[b]}

MaxRearrange == 2

\* layer.select(P) for an arrangement P, then _rearrange_columns on the
\* result, up to MaxRearrange times in a row.
NextRearrange ==
    \/ /\ ncalls = 0
       /\ \E P \in Arrangements(NCols(dataset)) : Select(<<ListTerm(P)>>, TRUE, FALSE)
    \/ /\ ncalls = 1
       /\ nops < MaxRearrange
       /\ Rearrange

SpecRearrange == InitRoots /\ [][NextRearrange]_vars

\* The sources of iteration and extraction, the methods and the positions.
Sources == {"dataset", "Selected_data"}

Methods == IterMethods \cup {"rows"}

Positions == {<<>>, <<0>>, <<1, 0>>, <<0, 2>>, <<3, 1>>, <<-1>>, <<4>>}

MaxData == 2

\* list(d.iter(method)) for d the dataset of the layer or its selection.
Iterate(which, method) ==
    LET d == IF which = "dataset" THEN dataset ELSE Selected_data
        r == iter(d, method)
    IN /\ yielded' = Append(yielded, [src |-> d, key |-> method, subs |-> r.subs,
                                       err |-> r.err])
       /\ last' = Rec("iter", r.err, <<method>>, FALSE, FALSE, d, d)
       /\ faulted' = (faulted \/ r.err # "ok")
       /\ nops' = nops + 1
       /\ UNCHANGED <<dataset, Selected_data, called_select, call, prev, chain, ncalls, tr,
                    normcall, source, handle>>

\* DataSet().columns_to_dataset([d.column[p] for p in ps], extended)
Extract(which, ps, extended) ==
    LET d == IF which = "dataset" THEN dataset ELSE Selected_data
        cols == [k \in 1..Len(ps) |-> ColumnList_getitem(d, ps[k])]
        r == IF \E k \in 1..Len(ps) : cols[k] = None
             THEN [ds |-> NewDataSet, err |-> "IndexError"]
             ELSE columns_to_dataset(NewDataSet, d, cols, extended)
    IN /\ yielded' = Append(yielded, [src |-> d, key |-> "columns",
                                       subs |-> <<r.ds>>, err |-> r.err])
       /\ last' = Rec("columns_to_dataset", r.err, cols, extended, FALSE, d, d)
       /\ faulted' = (faulted \/ r.err # "ok")
       /\ nops' = nops + 1
       /\ UNCHANGED <<dataset, Selected_data, called_select, call, prev, chain, ncalls, tr,
                    normcall, source, handle>>

\* A selection, then iterations and extractions on the dataset and on the
\* selection.
NextData ==
    \/ /\ ncalls = 0 /\ nops = 0
       /\ \E args \in SysArgs, extended \in BOOLEAN : Select(args, extended, FALSE)
    \/ /\ nops < MaxData
       /\ \E which \in Sources, method \in Methods : Iterate(which, method)
    \/ /\ nops < MaxData
       /\ \E which \in Sources, ps \in Positions, extended \in BOOLEAN :
             Extract(which, ps, extended)

SpecData == InitRoots /\ [][NextData]_vars

\* Three groups of one column each.
RootThree ==
    load_data(<<sZa, sZa, sZa>>, <<sV, sV, sV>>, <<0, 1, 2>>,
              << <<3>>, <<-4>>, <<12>> >>, 1)

NormRoots == {RootCols, RootThree}

InitNorm == \E d \in NormRoots : Layer(d)

\* The selections a transformer is built on and the arguments of its Norm
\* calls.
NormSelects ==
    {<<ListTerm(<<0, 1>>)>>, <<ListTerm(<<0, 2>>)>>, <<IntTerm(0)>>,
     <<StrTerm(sGroups), ListTerm(<<2>>)>>}

NormInputs ==
    {[kind |-> "none", i |-> 0, l |-> <<>>],
     [kind |-> "int", i |-> 0, l |-> <<>>],
     [kind |-> "int", i |-> 2, l |-> <<>>],
     [kind |-> "list", i |-> 0, l |-> <<0, 1>>],
     [kind |-> "column", i |-> 0, l |-> <<0, 2>>]}

NormUnitArgs == {[given |-> FALSE, v |-> <<>>], [given |-> TRUE, v |-> sV]}

NormGroupArgs == {None, 2}

MaxNorm == 2

\* layer.select(...); tr = DataTransformer(...); tr.Norm(...); tr.Norm(...)
NextNorm ==
    \/ /\ ncalls = 0 /\ nops = 0
       /\ \E args \in NormSelects : Select(args, TRUE, FALSE)
    \/ /\ ~tr.on
       /\ NewTransformer
    \/ /\ tr.on
       /\ nops < 1 + MaxNorm
       /\ \E order \in Orders, src \in NormInputs, norm_unit \in NormUnitArgs,
             New_group \in BOOLEAN, norm_groups_idx \in NormGroupArgs,
             extended \in BOOLEAN :
             NormCall(order, src, norm_unit, New_group, norm_groups_idx, extended)

SpecNorm == InitNorm /\ [][NextNorm]_vars

\* The dataset a handle belongs to.
Owner(which) == IF which = "dataset" THEN dataset ELSE Selected_data

\* handle = d.column[i] for d the dataset of the layer or its selection.
Take(which, i) ==
    LET d == Owner(which)
        idx == ColumnList_getitem(d, i)
    IN /\ handle' = IF idx = None THEN handle
                    ELSE [on |-> TRUE, of |-> which, idx |-> idx, key |-> "",
                          v |-> <<>>]
       /\ last' = Rec("column", IF idx = None THEN "IndexError" ELSE "ok", <<>>,
                      FALSE, FALSE, NewDataSet, d)
       /\ faulted' = (faulted \/ idx = None)
       /\ nops' = nops + 1
       /\ UNCHANGED <<dataset, Selected_data, called_select, call, prev, chain, ncalls, tr,
                      yielded, normcall, source>>

\* handle[key]
HandleRead(key) ==
    LET r == Column_getitem(Owner(handle.of), handle.idx, key)
    IN /\ handle.on
       /\ handle' = [handle EXCEPT !.key = key, !.v = r.v]
       /\ last' = Rec("getitem", r.err, <<>>, FALSE, FALSE, NewDataSet,
                      Owner(handle.of))
       /\ faulted' = (faulted \/ r.err # "ok")
       /\ nops' = nops + 1
       /\ UNCHANGED <<dataset, Selected_data, called_select, call, prev, chain, ncalls, tr,
                      yielded, normcall, source>>

\* handle[key] = value.  The record keeps the other dataset of the layer
\* as arg and the owner before the write as pre.
HandleWrite(key, value) ==
    LET r == Column_setitem(Owner(handle.of), handle.idx, key, value)
    IN /\ handle.on
       /\ dataset' = IF handle.of = "dataset" THEN r.ds ELSE dataset
       /\ Selected_data' = IF handle.of = "dataset" THEN Selected_data ELSE r.ds
       /\ handle' = [handle EXCEPT !.key = key, !.v = value]
       /\ last' = Rec("setitem", r.err, <<>>, FALSE, FALSE,
                      IF handle.of = "dataset" THEN Selected_data ELSE dataset,
                      Owner(handle.of))
       /\ faulted' = (faulted \/ r.err # "ok")
       /\ nops' = nops + 1
       /\ UNCHANGED <<called_select, call, prev, chain, ncalls, tr, yielded, normcall, source>>

\* The arguments of the selections, the positions handles are taken at, the
\* keys accessed and the values written.
ViewArgs == {<<IntTerm(0)>>, <<ListTerm(<<1, 3>>)>>}

ViewBy == {<<IntTerm(0)>>}

ViewIdx == {0, 1, -1}

ViewKeys == ReadKeys \cup {"status"}

ViewValues(key, d) ==
    CASE key \in {"name", "unit"} -> {sZb}
      [] key = "data" -> {[r \in 1..d.nrows |-> 9]}
      [] OTHER -> {7}

ViewOthers ==
    {MkOther(<<sZb>>, <<sA>>, <<2>>, <<None>>, <<None>>, << <<7>> >>)}

MaxView == 3

\* A selection, then handles on the dataset and on the selection, accesses
\* through them, and in-place changes of the selection.  A handle is taken
\* after the selection calls, which may replace the object Selected_data.
NextView ==
    \/ /\ ncalls = 0 /\ nops = 0
       /\ \E args \in ViewArgs, extended \in BOOLEAN, inherit \in BOOLEAN :
             Select(args, extended, inherit)
    \/ /\ ncalls = 1 /\ nops = 0
       /\ \E args \in ViewBy, extended \in BOOLEAN, inherit \in BOOLEAN :
             By(args, extended, inherit)
    \/ /\ ~handle.on /\ nops < MaxView
       /\ \E which \in Sources, i \in ViewIdx : Take(which, i)
    \/ /\ nops < MaxView
       /\ \E key \in ViewKeys : HandleRead(key)
    \/ /\ nops < MaxView
       /\ \E key \in ViewKeys :
             \E value \in ViewValues(key, Owner(handle.of)) : HandleWrite(key, value)
    \/ /\ nops < MaxView
       /\ \E other \in ViewOthers : Extend(other)
    \/ /\ nops < MaxView
       /\ Rearrange

SpecView == Init /\ [][NextView]_vars

-----------------------------------------------------------------------------
(* Properties *)

\* The column at Python index i of d: its cells, name, unit and group id.
ColumnAt(d, i) ==
    [data |-> d.data[i + 1], name |-> d.names[i + 1], unit |-> d.units[i + 1],
     group |-> d.groups_idx[i + 1]]

\* The lists of d have one entry per column of the matrix.
EqualLengths(d) ==
    /\ Len(d.names) = NCols(d)
    /\ Len(d.units) = NCols(d)
    /\ Len(d.groups_idx) = NCols(d)
    /\ Len(d.group_local_idx) = NCols(d)
    /\ Len(d.local_idx) = NCols(d)
    /\ Len(d.father_idx) = NCols(d)
    /\ Len(d.initial_idx) = NCols(d)

\* An index, index-list, name or unit term that addresses columns of d.
PlainTerm(t, d) ==
    \/ t.k = "int" /\ t.i \in 0..(NCols(d) - 1)
    \/ /\ t.k = "list"
       /\ t.l # <<>>
       /\ \A k \in 1..Len(t.l) : t.l[k] \in 0..(NCols(d) - 1)
    \/ /\ t.k = "str"
       /\ t.s # sAll
       /\ ~GroupMatch(t.s)
       /\ In(t.s, d.names) \/ In(t.s, d.units)

PlainArgs(args, d) == \A k \in 1..Len(args) : PlainTerm(args[k], d)

\* The state after select(T1).by(T2), both accepted, on index, list, name and
\* unit terms.
ChainDone ==
    /\ last.op = "by" /\ last.err = "ok" /\ ~last.inherit
    /\ prev.op = "select" /\ prev.err = "ok" /\ ~prev.inherit
    /\ PlainArgs(prev.args, prev.arg)
    /\ PlainArgs(last.args, last.arg)

GroupLocalOK(d) ==
    /\ Len(d.group_local_idx) = Len(d.groups_idx)
    /\ \A j \in 1..Len(d.groups_idx) :
          d.group_local_idx[j] =
            Cardinality({k \in 1..(j - 1) : d.groups_idx[k] = d.groups_idx[j]})
    /\ d.num_datagroups = Cardinality(Range(d.groups_idx))

\* C2: after a successful expandata, _rearrange_columns, select / by or Norm,
\* every column's group_local_idx is the number of preceding columns with the
\* same group id and num_datagroups is the number of distinct group ids, also
\* when the call defaulted unset group ids.
C2_GroupLocal ==
    /\ (last.op \in {"expandata", "rearrange", "select", "by"} /\ last.err = "ok")
          => GroupLocalOK(Selected_data)
    /\ (last.op = "Norm" /\ last.err = "ok") => GroupLocalOK(tr.dataset)

\* Columns of d with equal group_local_idx have equal units.
Aligned(d) ==
    \A i, j \in 1..Len(d.units) :
       (/\ i <= Len(d.group_local_idx)
        /\ j <= Len(d.group_local_idx)
        /\ d.group_local_idx[i] = d.group_local_idx[j])
         => d.units[i] = d.units[j]

\* C3: every dataset produced by a successful expandata, _rearrange_columns,
\* select / by or Norm has equal units on any two columns with equal
\* group_local_idx.
C3_Aligned ==
    /\ (last.op \in {"expandata", "rearrange", "select", "by"} /\ last.err = "ok")
          => Aligned(Selected_data)
    /\ (last.op = "Norm" /\ last.err = "ok") => Aligned(tr.dataset)

\* The lengths expandata(self, other) would concatenate to disagree.
LengthsDisagree(self, other) ==
    LET n == NCols(self) + NCols(other)
    IN \/ Len(self.names) + Len(other.names) # n
       \/ Len(self.units) + Len(other.units) # n
       \/ Len(self.groups_idx) + Len(other.groups_idx) # n
       \/ Len(self.father_idx) + Len(other.father_idx) # n
       \/ Len(self.initial_idx) + Len(other.initial_idx) # n

\* C4: after successful calls only, the lists of a dataset all have the length
\* of the column count and local_idx[i] = i; an expandata whose concatenated
\* matrix and list lengths disagree fails with DimensionMismatch.
C4_Lengths ==
    /\ ~faulted =>
          /\ EqualLengths(Selected_data)
          /\ Selected_data.local_idx = PyRange(NCols(Selected_data))
          /\ tr.on => /\ EqualLengths(tr.dataset)
                      /\ tr.dataset.local_idx = PyRange(NCols(tr.dataset))
    /\ (/\ last.op = "expandata"
        /\ Size(last.pre) = 0 \/ last.pre.nrows = last.arg.nrows
        /\ LengthsDisagree(last.pre, last.arg))
         => last.err = "DimensionMismatch"

\* C5: by is accepted only as the call that immediately follows a select; a
\* by before any select, or directly after another by, fails with
\* ChainSequencing.
C5_ByAfterSelect ==
    (last.op = "by" /\ last.err # "ChainSequencing") => prev.op = "select"

\* C10: the result of a chain of k completed selections has generation k:
\* 1 after select, 2 after select(...).by(...).
C10_Generation ==
    /\ (last.op = "select" /\ last.err = "ok") => Selected_data.generation = 1
    /\ (last.op = "by" /\ last.err = "ok" /\ prev.op = "select" /\ prev.err = "ok")
          => Selected_data.generation = 2

\* The call made was op(s) with the one string term s, other than 'all', that
\* is a name or a unit of the queried dataset.
OneString(s) ==
    /\ last.op \in {"select", "by"}
    /\ last.err # "ChainSequencing"
    /\ last.args = <<StrTerm(s)>>
    /\ s # sAll
    /\ In(s, last.arg.names) \/ In(s, last.arg.units)

\* The result holds exactly the columns of the queried dataset d whose entry
\* in lst is s, in column order.
ExactlyMatching(s, lst, d) ==
    LET f == Selected_data.father_idx
    IN /\ EqualLengths(Selected_data)
       /\ Range(f) = {i \in 0..(Len(lst) - 1) : lst[i + 1] = s}
       /\ \A a, b \in 1..Len(f) : a < b => f[a] < f[b]
       /\ \A j \in 0..(Len(f) - 1) : ColumnAt(Selected_data, j) = ColumnAt(d, f[j + 1])

\* select(s) yields the columns named s if s is a name, else those with unit
\* s; the yielded columns may fail the unit check of update_attributes.
NameThenUnit(s) ==
    /\ last.err \in {"ok", "SchemaAlignment"}
    /\ last.err = "ok" =>
          IF In(s, last.arg.names)
          THEN ExactlyMatching(s, last.arg.names, last.arg)
          ELSE ExactlyMatching(s, last.arg.units, last.arg)

Strings == {sAll, sGroups, sGroup1, sZa, sZb, sV, sA, sNone}

\* C8 as stated: for every string term s other than 'all', whatever its
\* spelling, select(s) yields exactly the columns named s if s is a column
\* name, and otherwise, if s is a unit, exactly the columns with unit s.
C8_AnySpelling ==
    \A s \in Strings : OneString(s) => NameThenUnit(s)

\* C8 amended: the same for every string term s other than 'all' that does
\* not begin with "group" in any letter case.
C8_NameThenUnit ==
    \A s \in Strings : (OneString(s) /\ ~GroupMatch(s)) => NameThenUnit(s)

\* by('V') on a dataset where "V" is both a name and a unit yielded the
\* columns named "V".
C8_Witness ==
    /\ OneString(sV) /\ last.err = "ok"
    /\ In(sV, last.arg.names) /\ In(sV, last.arg.units)
    /\ last.op = "by" /\ prev.op = "select" /\ prev.err = "ok"

\* C6: select('all') yields every column of the queried dataset, in order,
\* with father_idx and initial_idx both 0..m-1.
C6_All ==
    (/\ last.op = "select"
     /\ last.args = <<StrTerm(sAll)>>
     /\ NCols(last.arg) >= 1)
      => /\ last.err = "ok"
         /\ EqualLengths(Selected_data)
         /\ Selected_data.father_idx = PyRange(NCols(last.arg))
         /\ Selected_data.initial_idx = PyRange(NCols(last.arg))
         /\ \A j \in 0..(NCols(last.arg) - 1) :
               ColumnAt(Selected_data, j) = ColumnAt(last.arg, j)

\* A string term that is not 'all', not the group keyword, and neither a name
\* nor a unit of d.
Unmatched(t, d) ==
    /\ t.k = "str"
    /\ t.s # sAll
    /\ ~GroupMatch(t.s)
    /\ ~In(t.s, d.names)
    /\ ~In(t.s, d.units)

Matched(args, d) == SelectSeq(args, LAMBDA t : ~Unmatched(t, d))

\* The columns of d with their lineage.
Columns(d) ==
    [data |-> d.data, names |-> d.names, units |-> d.units,
     groups_idx |-> d.groups_idx, father_idx |-> d.father_idx,
     initial_idx |-> d.initial_idx]

\* C7: a string term that matches neither a name nor a unit contributes
\* nothing: a successful select yields what the select of its other terms
\* yields (stated for calls without the term 'all', which C6 is about).
C7_Unmatched ==
    (/\ last.op = "select" /\ last.err = "ok"
     /\ ~In(StrTerm(sAll), last.args)
     /\ Matched(last.args, last.arg) # last.args
     /\ Matched(last.args, last.arg) # <<>>)
      => LET r == select(NewDataSet, Matched(last.args, last.arg), last.arg, FALSE,
                         last.extended, FALSE)
         IN /\ r.err = "ok"
            /\ Columns(r.Selected_data) = Columns(Selected_data)

\* The elements of s are pairwise different.
NoDup(s) == \A a, b \in 1..Len(s) : s[a] = s[b] => a = b

\* args is one or two group terms: the keyword followed by a list of ids.
GroupTerms(args) ==
    /\ Len(args) \in {2, 4}
    /\ \A k \in 1..Len(args) :
          IF k % 2 = 1 THEN args[k].k = "str" /\ GroupMatch(args[k].s)
          ELSE args[k].k = "list" /\ NoDup(args[k].l)

\* f lists exactly the columns whose group id is in L, ordered by the
\* position of their group id in L and then by column position.
GroupOrder(f, L, groups_idx) ==
    LET at(g) == CHOOSE q \in 1..Len(L) : L[q] = g
        g(a) == groups_idx[f[a] + 1]
    IN /\ NoDup(f)
       /\ Range(f) = {i \in 0..(Len(groups_idx) - 1) : In(groups_idx[i + 1], L)}
       /\ \A a, b \in 1..Len(f) :
             a < b => \/ at(g(a)) < at(g(b))
                      \/ at(g(a)) = at(g(b)) /\ f[a] < f[b]

\* The state after an accepted select(g, L) or select(g, L1, g, L2).
GroupDone ==
    /\ last.op = "select" /\ last.err = "ok"
    /\ GroupTerms(last.args)
    /\ Len(last.args) = 4 => last.extended

\* C9: select(g, L) with the group keyword g and an integer list L yields
\* exactly the columns whose group id is in L, ordered by the position of
\* their group id in L and then by column position; L is consumed with the
\* keyword, and several group terms concatenate in term order.
C9_GroupKeyword ==
    GroupDone =>
      LET f == Selected_data.father_idx
          d == last.arg
      IN /\ EqualLengths(Selected_data)
         /\ \A j \in 0..(Len(f) - 1) : ColumnAt(Selected_data, j) = ColumnAt(d, f[j + 1])
         /\ IF Len(last.args) = 2
            THEN GroupOrder(f, last.args[2].l, d.groups_idx)
            ELSE \E k \in 0..Len(f) :
                    /\ GroupOrder(SubSeq(f, 1, k), last.args[2].l, d.groups_idx)
                    /\ GroupOrder(SubSeq(f, k + 1, Len(f)), last.args[4].l,
                                  d.groups_idx)

\* select(g, [1, 0], g, [1]) was accepted: two group terms, the first with
\* its ids in descending order.
C9_Witness ==
    /\ GroupDone
    /\ Len(last.args) = 4
    /\ last.args[2].l = <<1, 0>>
    /\ NCols(Selected_data) = 6

\* C11: a select in which no term contributes a column, with no prior
\* accumulation, fails with SelectionIncomplete; select never returns
\* successfully with a zero-column result.
C11_NoEmptyResult ==
    (last.op = "select" /\ last.err = "ok") => NCols(Selected_data) >= 1

\* C12: an expandata that fails with DimensionMismatch or SchemaAlignment
\* leaves the target as it was before the call: matrix, lists, derived indices
\* and status.
C12_FailedExtend ==
    (last.op = "expandata" /\ last.err \in {"DimensionMismatch", "SchemaAlignment"})
      => Selected_data = last.pre

\* C13: a select or by that fails leaves Selected_data as it was before the
\* call: neither reset to an empty dataset nor holding the columns of the terms
\* processed before the fault.
C13_FailedSelect ==
    (last.op \in {"select", "by"} /\ last.err # "ok")
      => /\ Columns(Selected_data) = Columns(last.pre)
         /\ Selected_data.status = last.pre.status

\* The term t addresses no column of d: a position outside 0..m-1, or an index
\* list that is empty or holds such a position.
NoColumn(t, d) ==
    \/ t.k = "int" /\ t.i \notin 0..(NCols(d) - 1)
    \/ /\ t.k = "list"
       /\ \/ t.l = <<>>
          \/ \E k \in 1..Len(t.l) : t.l[k] \notin 0..(NCols(d) - 1)

\* args is the group keyword with an id list that matches no column of d.
NoGroup(args, d) ==
    /\ Len(args) = 2
    /\ args[1].k = "str" /\ GroupMatch(args[1].s)
    /\ args[2].k = "list"
    /\ \A k \in 1..Len(args[2].l) : ~In(args[2].l[k], d.groups_idx)

\* C14: a select whose term addresses no column of the queried dataset (a
\* position outside 0..m-1, negative ones included, an index list holding one
\* or empty, a group keyword whose ids match no column) fails with the
\* UnresolvedSelector fault (IndexError or ValueError) and yields no column.
C14_Unresolved ==
    (/\ last.op \in {"select", "by"}
     /\ last.err # "ChainSequencing"
     /\ \/ Len(last.args) = 1 /\ NoColumn(last.args[1], last.arg)
        \/ NoGroup(last.args, last.arg))
      => last.err \in {"IndexError", "ValueError"}

\* The lists of other have one entry per column of its matrix.
WholeOther(other) ==
    /\ Len(other.names) = NCols(other)
    /\ Len(other.units) = NCols(other)
    /\ Len(other.groups_idx) = NCols(other)
    /\ Len(other.father_idx) = NCols(other)
    /\ Len(other.initial_idx) = NCols(other)

\* The state after a successful expandata(other), no call having raised
\* before, with other a dataset of k columns.
ExtendDone ==
    /\ last.op = "expandata" /\ last.err = "ok"
    /\ ~faulted
    /\ WholeOther(last.arg)

\* C15: a successful expandata of a dataset with m columns by another with k
\* columns leaves m+k columns: columns 0..m-1 are the old columns unchanged
\* (data, name, unit, group id, father_idx, initial_idx, group_local_idx) and
\* columns m..m+k-1 are other's columns in other's order; a target with zero
\* columns ends with exactly other's columns.
C15_Extend ==
    ExtendDone =>
      LET pre == last.pre
          other == last.arg
          m == NCols(pre)
          k == NCols(other)
      IN /\ NCols(Selected_data) = m + k
         /\ EqualLengths(Selected_data)
         /\ \A j \in 0..(m - 1) :
               /\ ColumnAt(Selected_data, j) = ColumnAt(pre, j)
               /\ Selected_data.father_idx[j + 1] = pre.father_idx[j + 1]
               /\ Selected_data.initial_idx[j + 1] = pre.initial_idx[j + 1]
               /\ Selected_data.group_local_idx[j + 1] = pre.group_local_idx[j + 1]
         /\ \A j \in 0..(k - 1) :
               /\ Selected_data.data[m + j + 1] = other.data[j + 1]
               /\ Selected_data.names[m + j + 1] = other.names[j + 1]
               /\ Selected_data.units[m + j + 1] = other.units[j + 1]
               /\ other.groups_idx[j + 1] # None =>
                     Selected_data.groups_idx[m + j + 1] = other.groups_idx[j + 1]

\* C16: a successful expandata replaces every unset father_idx and
\* initial_idx by the column's own position, and every unset group id by 0
\* when every group id of the dataset is unset, otherwise by one more than the
\* largest set group id; set entries are left unchanged.
C16_Defaults ==
    ExtendDone =>
      LET f == last.pre.father_idx \o last.arg.father_idx
          p == last.pre.initial_idx \o last.arg.initial_idx
          g == last.pre.groups_idx \o last.arg.groups_idx
          set == SelectSeq(g, LAMBDA x : x # None)
          fill == IF set = <<>> THEN 0 ELSE SeqMax(set) + 1
      IN /\ EqualLengths(Selected_data)
         /\ \A j \in 1..Len(g) :
               /\ Selected_data.father_idx[j] = IF f[j] = None THEN j - 1 ELSE f[j]
               /\ Selected_data.initial_idx[j] = IF p[j] = None THEN j - 1 ELSE p[j]
               /\ Selected_data.groups_idx[j] = IF g[j] = None THEN fill ELSE g[j]

\* Column i of d with its lineage (i a Python index).
Tracked(d, i) ==
    [col |-> ColumnAt(d, i), father_idx |-> d.father_idx[i + 1],
     initial_idx |-> d.initial_idx[i + 1]]

\* The sort key of column i of d: its group id, then its group_local_idx.
KeyBelow(d, i, j) ==
    \/ d.groups_idx[i + 1] < d.groups_idx[j + 1]
    \/ /\ d.groups_idx[i + 1] = d.groups_idx[j + 1]
       /\ d.group_local_idx[i + 1] < d.group_local_idx[j + 1]

\* The state after a successful _rearrange_columns.
RearrangeDone == last.op = "rearrange" /\ last.err = "ok"

\* C19: _rearrange_columns permutes the columns into non-decreasing
\* (group id, group_local_idx) order, stably, moving each column's data, name,
\* unit, group id, father_idx and initial_idx together, and local_idx is again
\* 0..m-1: the column at position i before the call stands after it at the
\* number of columns with a smaller key, or an equal key and a smaller position.
C19_Rearranged ==
    RearrangeDone =>
      LET pre == last.pre
          m == NCols(pre)
          place(i) == Cardinality({j \in 0..(m - 1) :
                         \/ KeyBelow(pre, j, i)
                         \/ ~KeyBelow(pre, i, j) /\ j < i})
      IN /\ NCols(Selected_data) = m
         /\ EqualLengths(Selected_data)
         /\ Selected_data.local_idx = PyRange(m)
         /\ \A i \in 0..(m - 1) : Tracked(Selected_data, place(i)) = Tracked(pre, i)
         /\ \A a, b \in 0..(m - 1) : a < b => ~KeyBelow(Selected_data, b, a)

\* A rearrangement that moved a column: the first column was not first before.
C19_Witness ==
    /\ RearrangeDone
    /\ NCols(Selected_data) >= 2
    /\ Tracked(Selected_data, 0) # Tracked(last.pre, 0)

\* The result holds the columns of D in the order P: matrix columns, names
\* and units.
Reordered(D, P) ==
    /\ NCols(Selected_data) = Len(P)
    /\ Len(Selected_data.names) = Len(P)
    /\ Len(Selected_data.units) = Len(P)
    /\ \A j \in 1..Len(P) :
          /\ Selected_data.data[j] = D.data[P[j] + 1]
          /\ Selected_data.names[j] = D.names[P[j] + 1]
          /\ Selected_data.units[j] = D.units[P[j] + 1]

\* The extraction of the identity positions was called on the result of an
\* accepted extraction of an ordering P of the positions of D.
RoundTrip ==
    /\ last.op = "by"
    /\ prev.op = "select" /\ prev.err = "ok"
    /\ prev.args[1].l \in Perms(NCols(prev.arg))

\* C20 as stated: for any ordering P of the column positions of D, extracting
\* P and then the identity positions succeeds and yields the matrix columns,
\* names and units of D reordered by P.
C20_AnyOrdering ==
    /\ (last.op = "select" /\ last.args[1].l \in Perms(NCols(last.arg)))
          => last.err = "ok"
    /\ RoundTrip => (last.err = "ok" /\ Reordered(prev.arg, prev.args[1].l))

\* C20 amended: the same for every ordering P whose extraction passes the
\* unit check of update_attributes.
C20_RoundTrip ==
    RoundTrip => (last.err = "ok" /\ Reordered(prev.arg, prev.args[1].l))

\* A round trip on an ordering that moves every column.
C20_Witness ==
    /\ RoundTrip
    /\ last.err = "ok"
    /\ \A j \in 1..Len(prev.args[1].l) : prev.args[1].l[j] # j - 1

\* The outcome of the latest iteration or extraction.
Latest == yielded[Len(yielded)]

\* An accepted columns_to_dataset(cols, extended=False) on at least one column.
ExtractDone ==
    /\ last.op = "columns_to_dataset"
    /\ last.err = "ok"
    /\ ~last.extended
    /\ Len(last.args) >= 1

\* C17: columns_to_dataset on the Columns at positions p1..pk of a source
\* builds a dataset of exactly those k columns in that order (data, name,
\* unit, group id), with father_idx = [p1..pk] and initial_idx the source's
\* initial_idx at p1..pk ([p1..pk] itself for a source whose initial_idx is its
\* local_idx), also when the source is a selection result whose father_idx is
\* not the identity.
C17_Extraction ==
    ExtractDone =>
      LET src == last.arg
          ps == last.args
          new == Latest.subs[1]
      IN /\ NCols(new) = Len(ps)
         /\ EqualLengths(new)
         /\ \A k \in 1..Len(ps) :
               /\ ColumnAt(new, k - 1) = ColumnAt(src, ps[k])
               /\ new.father_idx[k] = ps[k]
               /\ new.initial_idx[k] = src.initial_idx[ps[k] + 1]

\* The sub-dataset a column of D goes to and its place there, for the
\* attribute attr: the rank of its value in first-seen order, and the number
\* of earlier columns with the same value.
KeyRank(attr, j) ==
    Cardinality({attr[k] : k \in {i \in 1..j :
                                    \A h \in 1..i : attr[h] # attr[j]}}) + 1

KeyPlace(attr, j) == Cardinality({k \in 1..(j - 1) : attr[k] = attr[j]})

\* An iteration, by one of the four keys, of a dataset that satisfies I1-I3.
IterCalled ==
    /\ last.op = "iter"
    /\ last.args[1] \in IterMethods
    /\ EqualLengths(last.arg)
    /\ GroupLocalOK(last.arg)
    /\ Aligned(last.arg)

\* C18: iter over a dataset satisfying I1-I3, by groups, names, units or
\* group_local_idx, raises nothing and yields one sub-dataset per distinct key
\* value in first-seen order, each holding exactly the columns with that value
\* in their current order; the dataset is left as it was and a second call
\* yields the same sequence.
C18_Partition ==
    /\ IterCalled =>
         LET D == last.arg
             attr == attr_map(D, last.args[1])
             subs == Latest.subs
         IN /\ last.err = "ok"
            /\ Len(subs) = Cardinality(Range(attr))
            /\ \A n \in 1..Len(subs) :
                  NCols(subs[n]) =
                    Cardinality({j \in 1..Len(attr) : KeyRank(attr, j) = n})
            /\ \A j \in 1..Len(attr) :
                  /\ KeyRank(attr, j) <= Len(subs)
                  /\ KeyPlace(attr, j) < NCols(subs[KeyRank(attr, j)])
                  /\ ColumnAt(subs[KeyRank(attr, j)], KeyPlace(attr, j))
                       = ColumnAt(D, j - 1)
            /\ (dataset = D \/ Selected_data = D)
    /\ \A a, b \in 1..Len(yielded) :
          (/\ yielded[a].key \in IterMethods
           /\ yielded[a].key = yielded[b].key
           /\ yielded[a].src = yielded[b].src)
            => (yielded[a].subs = yielded[b].subs /\ yielded[a].err = yielded[b].err)

\* A Norm call that returned; merged when it was given extended=True.
NormDone == last.op = "Norm" /\ last.err = "ok"

\* C21: after a Norm with extended=True on a transformer whose dataset had m
\* columns, the output column is at position m and its father_idx and
\* initial_idx are both m.
C21_NormLineage ==
    (NormDone /\ last.extended) =>
      LET m == NCols(last.pre)
      IN /\ NCols(tr.dataset) = m + 1
         /\ Len(tr.dataset.father_idx) = m + 1
         /\ Len(tr.dataset.initial_idx) = m + 1
         /\ tr.dataset.father_idx[m + 1] = m
         /\ tr.dataset.initial_idx[m + 1] = m

\* The group id of the output column of the latest Norm.
OutGroup == tr.dataset.groups_idx[NCols(tr.dataset)]

\* C22: a Norm with New_group and no norm_groups_idx gives its output a group
\* id that no column of the transformer's dataset carried before the call,
\* and the ids so given by one transformer are pairwise distinct.
C22_NewGroup ==
    (NormDone /\ normcall.New_group /\ normcall.norm_groups_idx = None) =>
      /\ OutGroup \notin Range(last.pre.groups_idx)
      /\ \A a, b \in 1..Len(normcall.ids) :
            a # b => normcall.ids[a] # normcall.ids[b]

\* The positions of the transformer's dataset that the latest Norm call
\* designates when it is given no Column: all of them, or its indicies.
Designated ==
    IF normcall.src.kind = "none" THEN PyRange(NCols(last.pre))
    ELSE IF normcall.src.kind = "int" THEN <<normcall.src.i>>
    ELSE normcall.src.l

\* The output column of the latest Norm.
Output == ColumnAt(tr.dataset, NCols(tr.dataset) - 1)

\* C23: a Norm given neither Columns nor indicies reduces all the columns the
\* transformer's dataset has at the time of the call, one given indicies
\* those positions of these columns, and the names used to label the output
\* are those of the reduced columns.
C23_CurrentColumns ==
    (/\ last.op = "Norm"
     /\ normcall.src.kind # "column"
     /\ EqualLengths(last.pre)
     /\ \A k \in 1..Len(Designated) :
           Designated[k] >= 0 /\ Designated[k] < NCols(last.pre))
      => /\ last.err # "IndexError"
         /\ NormDone =>
              /\ Output.data = NormValue(Pick(last.pre.data, Designated),
                                         last.pre.nrows, normcall.order)
              /\ Output.name = NormName(Pick(last.pre.names, Designated))

\* The group ids of the input columns of the latest Norm call: those of the
\* Columns it was given, else of the designated columns of its dataset.
InputGroups ==
    IF normcall.src.kind = "column"
    THEN Pick(normcall.cols.groups_idx, normcall.src.l)
    ELSE Pick(last.pre.groups_idx, Designated)

\* The latest call was a Norm whose inputs exist.
NormCalled ==
    /\ last.op = "Norm"
    /\ EqualLengths(last.pre)
    /\ normcall.src.kind # "column" =>
          \A k \in 1..Len(Designated) :
             Designated[k] >= 0 /\ Designated[k] < NCols(last.pre)

\* C24: the output group id of Norm is norm_groups_idx when given; else, with
\* New_group, an id no column of the dataset carries; else the id shared by all
\* input columns; with differing input ids and neither argument the call
\* raises and leaves the transformer's dataset as it was.
C24_GroupPrecedence ==
    NormCalled =>
      IF normcall.norm_groups_idx # None
      THEN NormDone => OutGroup = normcall.norm_groups_idx
      ELSE IF normcall.New_group
      THEN NormDone => OutGroup \notin Range(last.pre.groups_idx)
      ELSE IF Cardinality(Range(InputGroups)) = 1
      THEN NormDone => OutGroup = InputGroups[1]
      ELSE last.err = "GroupAmbiguous" /\ tr.dataset = last.pre

\* The names of the input columns of the latest Norm call.
InputNames ==
    IF normcall.src.kind = "column"
    THEN Pick(normcall.cols.names, normcall.src.l)
    ELSE Pick(last.pre.names, Designated)

\* C25: Norm produces exactly one output column, named as its input when
\* there is one input column, "Norm_of_<name>" when several inputs share one
\* name, and otherwise "Norm_of_" followed by the input names in order joined
\* by "_".
C25_NormName ==
    (NormCalled /\ NormDone) =>
      /\ NCols(tr.dataset) = IF last.extended THEN NCols(last.pre) + 1 ELSE 1
      /\ Output.name =
            IF Len(InputNames) = 1 THEN InputNames[1]
            ELSE IF /\ Len(InputNames) >= 2
                    /\ \A k \in 1..Len(InputNames) : InputNames[k] = InputNames[1]
            THEN sNormOf \o InputNames[1]
            ELSE sNormOf \o Join(sUnderscore, InputNames)

\* C26 as stated: a select or by call, whatever extended and inherit are,
\* leaves the dataset it selects from as it was; extending the selection or
\* writing to it through a Column leaves the dataset of the layer as it was,
\* and writing to the dataset through a Column leaves the selection as it was.
C26_IndependentCopies ==
    [][/\ last'.op \in {"select", "by"} => source' = last'.arg
       /\ last'.op \in {"expandata", "rearrange"} => dataset' = dataset
       /\ last'.op = "setitem" =>
             IF handle.of = "dataset" THEN Selected_data' = Selected_data
             ELSE dataset' = dataset]_vars

\* The fields of a dataset other than the list a key of Column reads.
Rest(d, key) ==
    [f \in ((ReadKeys \cup {"data"}) \ {key, "local_idx"}) |->
        ColumnField(d, f)]

\* C27: a read through a Column at position i returns the current entry i
\* of its dataset for name, unit, group_idx, group_local_idx, father_idx,
\* initial_idx and data, and changes nothing; a write of name, unit, group_idx
\* or data changes that entry of the dataset and nothing else; a write to any
\* other key raises KeyError and changes nothing.
C27_ColumnView ==
    LET d == Owner(handle.of)
        key == handle.key
        i == handle.idx
    IN /\ (last.op = "getitem" /\ last.err = "ok" /\ key # "local_idx") =>
            /\ handle.v = ColumnField(d, key)[i + 1]
            /\ d = last.pre
       /\ (last.op = "setitem" /\ key \notin _ALLOWED_KEYS) =>
            /\ last.err = "KeyError"
            /\ d = last.pre
       /\ (last.op = "setitem" /\ key \in _ALLOWED_KEYS /\ last.err = "ok") =>
            /\ Len(ColumnField(d, key)) = Len(ColumnField(last.pre, key))
            /\ \A j \in 1..Len(ColumnField(d, key)) :
                  ColumnField(d, key)[j] =
                    IF j = i + 1 THEN handle.v ELSE ColumnField(last.pre, key)[j]
            /\ Rest(d, key) = Rest(last.pre, key)
            /\ d.local_idx = last.pre.local_idx
            /\ d.num_datagroups = last.pre.num_datagroups
            /\ d.generation = last.pre.generation
            /\ d.status = last.pre.status
            /\ d.nrows = last.pre.nrows

\* A name read through a Column of the dataset after it was written through
\* the same Column.
C27_Witness ==
    /\ last.op = "getitem" /\ last.err = "ok"
    /\ handle.of = "dataset" /\ handle.idx = 0
    /\ handle.key = "name" /\ handle.v = sZb

\* The call chain[k] raised while one of its terms was processed.
Aborted(k) == chain[k].op = "select" /\ ~chain[k].called

\* Among the first n calls of the chain a select finished processing its
\* terms and no by was called after it.
SelectFinished(n) ==
    \E k \in 1..n :
        /\ chain[k].op = "select" /\ chain[k].called
        /\ \A j \in (k + 1)..n : chain[j].op # "by"

\* C28 as stated: a by that directly follows a select that failed with
\* SelectionIncomplete is not rejected with ChainSequencing and selects from
\* the accumulator that select left; a by that directly follows a select that
\* raised while processing a term is admitted exactly when an earlier select
\* of the chain finished processing its terms and no by was called since.
C28_FlagSurvives ==
    LET n == Len(chain)
    IN (n >= 2 /\ chain[n].op = "by") =>
          /\ chain[n - 1].err = "SelectionIncomplete" /\ chain[n - 1].op = "select" =>
                /\ chain[n].err # "ChainSequencing"
                /\ call.arg = call.pre
                /\ call.arg.status # "written"
          /\ Aborted(n - 1) =>
                (chain[n].err # "ChainSequencing" <=> SelectFinished(n - 2))

\* The positions an index or index-list term passes to getdata.
TermPositions(t) == IF t.k = "int" THEN <<t.i>> ELSE t.l

\* The latest call was an accepted select or by of one index or index-list
\* term whose positions lie within 0..m-1.
Extracted(m) ==
    /\ last.op \in {"select", "by"} /\ last.err = "ok" /\ ~last.inherit
    /\ Len(last.args) = 1
    /\ last.args[1].k \in {"int", "list"}
    /\ \A k \in 1..Len(TermPositions(last.args[1])) :
          TermPositions(last.args[1])[k] \in 0..(m - 1)

\* C29: when the dataset selected from has a populated initial_idx of length
\* m and the positions lie within 0..m-1, the initial_idx of the extracted
\* dataset holds the source's initial_idx entries at those positions, whether
\* the source's initial_idx equals its local_idx or not; from a source with an
\* empty initial_idx the extracted initial_idx holds the positions themselves.
C29_LineageTest ==
    LET src == last.arg
        m == Len(src.initial_idx)
    IN /\ (m > 0 /\ Extracted(m)) =>
            LET ps == TermPositions(last.args[1])
            IN /\ Len(Selected_data.initial_idx) = Len(ps)
               /\ \A k \in 1..Len(ps) :
                     Selected_data.initial_idx[k] = src.initial_idx[ps[k] + 1]
       /\ (m = 0 /\ Extracted(NCols(src))) =>
            Selected_data.initial_idx = TermPositions(last.args[1])

\* A by that extracted from a selection whose initial_idx is not its
\* local_idx a column whose position in the root differs from its position in
\* that selection, after a select that extracted from the root.
C29_Witness ==
    /\ last.op = "by"
    /\ Len(last.arg.initial_idx) > 0
    /\ Extracted(Len(last.arg.initial_idx))
    /\ last.arg.initial_idx # last.arg.local_idx
    /\ Selected_data.initial_idx # TermPositions(last.args[1])
    /\ prev.op = "select" /\ prev.arg.initial_idx = prev.arg.local_idx

\* I1-I3 hold of d and every group id of d is set.
Canonicalisable(d) ==
    /\ Len(d.names) = NCols(d)
    /\ Len(d.units) = NCols(d)
    /\ Len(d.groups_idx) = NCols(d)
    /\ Len(d.father_idx) = NCols(d)
    /\ Len(d.initial_idx) = NCols(d)
    /\ GroupLocalOK(d)
    /\ Aligned(d)
    /\ ~In(None, d.groups_idx)

\* C30: on a dataset that satisfies I1-I3 and has every group id set,
\* _rearrange_columns raises nothing; every column keeps its group_local_idx
\* and the columns of a group keep their relative order; num_datagroups and
\* generation are kept; and a second call in a row changes nothing.
C30_Idempotent ==
    (last.op = "rearrange" /\ Canonicalisable(last.pre)) =>
      LET pre == last.pre
          post == Selected_data
          m == NCols(pre)
          place(i) == CHOOSE j \in 0..(m - 1) : Tracked(post, j) = Tracked(pre, i)
      IN /\ last.err = "ok"
         /\ NCols(post) = m
         /\ EqualLengths(post)
         /\ \A i \in 0..(m - 1) :
               /\ \E j \in 0..(m - 1) : Tracked(post, j) = Tracked(pre, i)
               /\ post.group_local_idx[place(i) + 1] = pre.group_local_idx[i + 1]
         /\ \A a, b \in 0..(m - 1) :
               (a < b /\ pre.groups_idx[a + 1] = pre.groups_idx[b + 1])
                 => place(a) < place(b)
         /\ post.num_datagroups = pre.num_datagroups
         /\ post.generation = pre.generation
         /\ nops = 2 => post = pre

\* A second _rearrange_columns in a row on a selection whose columns the
\* first one moved: the columns no longer stand in the order selected.
C30_Witness ==
    /\ last.op = "rearrange" /\ last.err = "ok" /\ nops = 2
    /\ Canonicalisable(last.pre)
    /\ call.op = "select" /\ call.err = "ok"
    /\ call.arg.initial_idx = call.arg.local_idx
    /\ NCols(Selected_data) >= 3
    /\ Selected_data.initial_idx # call.args[1].l

====
